---------------------------- MODULE Spec2Model ----------------------------
(***************************************************************************)
(* Model of src/main.py: phase_vocoder, the per-block callback of the      *)
(* pitch shifter.                                                          *)
(*                                                                         *)
(* Arrays are functions over 0 .. n-1, as numpy indexes them.  A real      *)
(* sample v is held as the integer v * Unit (fixed point, exact: every     *)
(* division the code performs - the window's quarters, ifft's 1/N, the     *)
(* blend's halves - divides evenly for the block lengths explored).  A     *)
(* complex value is a pair <<re, im>> of such integers.                    *)
(*                                                                         *)
(* The source sets fft_size = 2048 (line 42).  The model runs the same     *)
(* code at fft_size = 4: hop = fft_size // 4 stays >= 1, the window and    *)
(* the transform are exact (hanning(4) = 0, 3/4, 3/4, 0; the 4-point DFT   *)
(* has twiddles 1, -i, -1, i), and every branch of the block/frame         *)
(* arithmetic is reached with blocks of a few samples.                     *)
(***************************************************************************)
EXTENDS Integers, FiniteSets, Sequences, TLC

VARIABLES
    pc,             \* "idle" | "called" | "loop" | "returned" | "raised"
    input_data,     \* argument: the input block
    output,         \* argument: the caller's output block, mutated in place
    status,         \* argument: stream status flags
    shift_factor,   \* argument: the rational n/d as [n |-> .., d |-> ..]
    output_blend,   \* local of phase_vocoder (line 48)
    num_chunks,     \* local of phase_vocoder (line 52)
    i,              \* loop index (line 54)
    fft_data,       \* local of the loop body (line 63)
    new_indices,    \* local of the loop body (lines 66-67)
    shifted_fft,    \* local of the loop body (lines 68-69)
    err,            \* exception that left the call, "none" if none
    printed,        \* what this call wrote to stdout (line 35)
    prior,          \* history: the output block as the caller passed it
    \* a second engine, run on the same input blocks and shift factor
    status2, output2, output_blend2, num_chunks2, i2, pc2, err2, printed2,
    fft_data2, new_indices2, shifted_fft2, prior2

vars1 == <<pc, output, status, output_blend, num_chunks, i,
           fft_data, new_indices, shifted_fft, err, printed, prior>>
vars2 == <<status2, output2, output_blend2, num_chunks2, i2, pc2,
           fft_data2, new_indices2, shifted_fft2, err2, printed2, prior2>>

vars == <<input_data, shift_factor, vars1, vars2>>

----------------------------------------------------------------------------
(* Bounds of the exploration *)

MaxLen == 5

\* fixed-point denominator: 16 for window * ifft, one halving per chunk
Unit == 16 * 2^(MaxLen + 1)

\* contents the caller's output buffer may hold when the callback is entered
Garbage == {0, 1}

StatusFlags == {0, 1}

\* shift factors n/d the callback is called with; n <= 0 is invalid
ShiftFactors ==
    { [n |-> 0, d |-> 1], [n |-> -1, d |-> 2],
      [n |-> 1, d |-> 5], [n |-> 1, d |-> 2], [n |-> 1, d |-> 1],
      [n |-> 3, d |-> 2], [n |-> 2, d |-> 1] }

----------------------------------------------------------------------------
(* numpy helpers *)

len(a) == Cardinality(DOMAIN a)

zeros(n) == [k \in 0 .. n - 1 |-> 0]

czeros(n) == [k \in 0 .. n - 1 |-> <<0, 0>>]

Min(a, b) == IF a < b THEN a ELSE b

\* a[lo:hi] for 0 <= lo, with numpy's clipping of hi
Slice(a, lo, hi) ==
    LET h == Min(hi, len(a))
        n == IF h > lo THEN h - lo ELSE 0
    IN  [k \in 0 .. n - 1 |-> a[lo + k]]

\* variant: halves rounded up, as round() did before Python 3
RoundHalfUp(p, q) ==
    LET f == p \div q
        r == p % q
    IN  IF 2 * r >= q THEN f + 1 ELSE f

\* numpy.round / Python rounding of p/q (q > 0): half to even
RoundHalfEven(p, q) ==
    LET f == p \div q
        r == p % q
    IN  IF 2 * r < q THEN f
        ELSE IF 2 * r > q THEN f + 1
        ELSE IF f % 2 = 0 THEN f ELSE f + 1


\* the shape rule of an elementwise numpy operation on 1-D operands
Broadcastable(m, n) == m = n \/ m = 1 \/ n = 1

\* numpy.hanning(M)[n] = 0.5 - 0.5 cos(2 pi n / (M - 1)), in quarters;
\* for M = 4 the values are 0, 3/4, 3/4, 0
hanning(M) == [n \in 0 .. M - 1 |-> IF n = 0 \/ n = M - 1 THEN 0 ELSE 3]

\* x * hanning(M) for broadcastable operands: a length-1 x is stretched
WindowMul(x, w) ==
    LET n == IF len(x) > len(w) THEN len(x) ELSE len(w)
        xs(k) == IF len(x) = 1 THEN x[0] ELSE x[k]
        ws(k) == IF len(w) = 1 THEN w[0] ELSE w[k]
    IN  [k \in 0 .. n - 1 |-> (xs(k) * ws(k)) \div 4]

\* numpy.pad(a, (0, after), mode='constant')
pad(a, after) ==
    [k \in 0 .. len(a) + after - 1 |-> IF k < len(a) THEN a[k] ELSE 0]

\* z * i^m
MulI(z, m) ==
    LET r == m % 4
    IN  IF r = 0 THEN z
        ELSE IF r = 1 THEN <<-z[2], z[1]>>
        ELSE IF r = 2 THEN <<-z[1], -z[2]>>
        ELSE <<z[2], -z[1]>>

CAdd(a, b) == <<a[1] + b[1], a[2] + b[2]>>

RECURSIVE CSum(_, _)
\* t[0] + ... + t[n-1] of complex terms
CSum(t, n) == IF n = 0 THEN <<0, 0>> ELSE CAdd(CSum(t, n - 1), t[n - 1])

\* numpy.fft.fft of a real array of N samples, N dividing 4:
\* X[k] = sum_n x[n] e^(-2 pi i n k / N), and e^(-2 pi i / N) = i^(-4/N)
fft(x) ==
    LET N == len(x)
    IN  [k \in 0 .. N - 1 |->
            CSum([n \in 0 .. N - 1 |-> MulI(<<x[n], 0>>, -(n * k * (4 \div N)))], N)]

\* numpy.fft.ifft: x[n] = (1/N) sum_k X[k] e^(+2 pi i n k / N)
ifft(X) ==
    LET N == len(X)
    IN  [n \in 0 .. N - 1 |->
            LET s == CSum([k \in 0 .. N - 1 |-> MulI(X[k], n * k * (4 \div N))], N)
            IN  <<s[1] \div N, s[2] \div N>>]

real(z) == [n \in DOMAIN z |-> z[n][1]]

----------------------------------------------------------------------------
(* phase_vocoder, by source line *)

\* line 42 (2048 in the source; see the header)
fft_size == 4

\* line 49: alpha = 0.5 = alpha_n / alpha_d
alpha_n == 1
alpha_d == 2

\* line 38
InvalidShift(sf) == sf.n <= 0

\* line 52: int(ceil(len(input_data) / (fft_size // 4)))
NumChunks(input) ==
    LET hop == fft_size \div 4
    IN  (len(input) + hop - 1) \div hop

\* line 55
StartIndex(c) == c * (fft_size \div 4)

\* line 56
EndIndex(input, c) == Min(StartIndex(c) + fft_size, len(input))

\* line 66: round(arange(n) * shift_factor).astype(int)
AllIndices(n, sf) == [k \in 0 .. n - 1 |-> RoundHalfEven(k * sf.n, sf.d)]

\* line 67: new_indices[new_indices < n], order kept
NewIndices(n, sf) ==
    LET all == AllIndices(n, sf)
        Keep(v) == v < n
        kept == SelectSeq([k \in 1 .. n |-> all[k - 1]], Keep)
    IN  [j \in 0 .. Len(kept) - 1 |-> kept[j + 1]]

RECURSIVE AssignFrom_firstWins(_, _, _, _)
\* variant: a repeated index keeps the first value assigned
AssignFrom_firstWins(a, idx, vals, j) ==
    IF j >= len(idx) THEN a
    ELSE [AssignFrom_firstWins(a, idx, vals, j + 1) EXCEPT ![idx[j]] = vals[j]]

RECURSIVE AssignFrom(_, _, _, _)
\* a[idx] = vals, element by element from position j on: a repeated index
\* keeps the last value assigned
AssignFrom(a, idx, vals, j) ==
    IF j >= len(idx) THEN a
    ELSE AssignFrom([a EXCEPT ![idx[j]] = vals[j]], idx, vals, j + 1)

\* lines 68-69: shifted_fft = zeros_like(data); shifted_fft[idx] = data[:len(idx)]
ShiftedFft(data, idx) ==
    AssignFrom(czeros(len(data)), idx, Slice(data, 0, len(idx)), 0)

\* line 72: (1 - alpha) * output_blend + alpha * ifft(shifted).real
Blend(blend, shifted) ==
    LET t == real(ifft(shifted))
    IN  [n \in DOMAIN blend |->
            ((alpha_d - alpha_n) * blend[n] + alpha_n * t[n]) \div alpha_d]

\* variant: the start index scaled up by the shift factor instead of down
OutStart_scaled(c, sf) == (StartIndex(c) * sf.n) \div sf.d

\* line 75: int(start_index / shift_factor)
OutStart(c, sf) == (StartIndex(c) * sf.d) \div sf.n

\* line 78: out[out_start:min(out_start + len(blend), len(out))]
\*              += blend[:len(out[out_start:])]
OverlapAdd(out, blend, out_start) ==
    LET hi  == Min(out_start + len(blend), len(out))
        rhs == Slice(blend, 0, len(Slice(out, out_start, len(out))))
    IN  [k \in DOMAIN out |->
            IF out_start <= k /\ k < hi
            THEN out[k] + (IF len(rhs) = 1 THEN rhs[0] ELSE rhs[k - out_start])
            ELSE out[k]]

\* the shapes line 78 adds together
OverlapShapesOk(out, blend, out_start) ==
    Broadcastable(len(Slice(blend, 0, len(Slice(out, out_start, len(out))))),
                  Min(out_start + len(blend), len(out)) - out_start)

----------------------------------------------------------------------------
(* The callback as a state machine.  An engine is the record of the        *)
(* callback's output argument and locals; E1 and E2 are the two engines.   *)

ShiftError     == "ValueError: shift_factor must be a positive number."
BroadcastError == "ValueError: operands could not be broadcast together"
PadError       == "ValueError: index can't contain negative values"

E1 == [pc |-> pc, output |-> output, status |-> status,
       output_blend |-> output_blend, num_chunks |-> num_chunks, i |-> i,
       fft_data |-> fft_data, new_indices |-> new_indices,
       shifted_fft |-> shifted_fft,
       err |-> err, printed |-> printed, prior |-> prior]

E2 == [pc |-> pc2, output |-> output2, status |-> status2,
       output_blend |-> output_blend2, num_chunks |-> num_chunks2, i |-> i2,
       fft_data |-> fft_data2, new_indices |-> new_indices2,
       shifted_fft |-> shifted_fft2,
       err |-> err2, printed |-> printed2, prior |-> prior2]

Raise(e, msg) == [e EXCEPT !.pc = "raised", !.err = msg]

\* variant: a nonzero status is treated as an error
PrintStatus_fatal(e) ==
    IF e.status # 0
    THEN [e EXCEPT !.printed = Append(e.printed, e.status),
                   !.pc = "raised", !.err = "ValueError: stream status"]
    ELSE e

\* lines 34-35
PrintStatus(e) ==
    IF e.status # 0 THEN [e EXCEPT !.printed = Append(e.printed, e.status)] ELSE e

\* variant: the output block is accumulated into without being cleared
ZeroOutput_skipped(e, input) == e

\* line 45: output[:] = zeros_like(input_data)
ZeroOutput(e, input) ==
    IF len(input) = len(e.output) \/ len(input) = 1
    THEN [e EXCEPT !.output = zeros(len(e.output))]
    ELSE Raise(e, BroadcastError)

\* variant: the smoothing buffer is kept from the previous call
InitLocals_keepBlend(e, input) ==
    IF e.pc = "raised" THEN e
    ELSE [e EXCEPT !.num_chunks = NumChunks(input),
                   !.i = 0,
                   !.pc = "loop"]

\* lines 48-52: the smoothing buffer and the chunk count, then the loop
InitLocals(e, input) ==
    IF e.pc = "raised" THEN e
    ELSE [e EXCEPT !.output_blend = zeros(fft_size),
                   !.num_chunks = NumChunks(input),
                   !.i = 0,
                   !.pc = "loop"]

\* variant: the output block is cleared before the shift factor is validated
EnterCall_zeroFirst(e, input, sf) ==
    LET p == ZeroOutput(PrintStatus(e), input)
    IN  IF InvalidShift(sf) THEN Raise(p, ShiftError)
        ELSE InitLocals(p, input)

\* variant: a nonzero status is reported and the block is skipped
EnterCall_statusSkips(e, input, sf) ==
    LET p == PrintStatus(e)
    IN  IF e.status # 0 THEN [p EXCEPT !.pc = "returned"]
        ELSE IF InvalidShift(sf) THEN Raise(p, ShiftError)
        ELSE InitLocals(ZeroOutput(p, input), input)

\* lines 34-52: from the call to the head of the loop
EnterCall(e, input, sf) ==
    LET p == PrintStatus(e)
    IN  IF InvalidShift(sf) THEN Raise(p, ShiftError)
        ELSE InitLocals(ZeroOutput(p, input), input)

\* lines 74-78
Accumulate(e, blend, sf) ==
    LET out_start == OutStart(e.i, sf)
        b == [e EXCEPT !.output_blend = blend]
    IN  IF out_start < len(e.output)
        THEN IF OverlapShapesOk(e.output, blend, out_start)
             THEN [b EXCEPT !.output = OverlapAdd(e.output, blend, out_start),
                            !.i = e.i + 1]
             ELSE Raise(b, BroadcastError)
        ELSE [b EXCEPT !.i = e.i + 1]

\* lines 55-78: one pass of the loop body, for chunk e.i
ChunkBody(e, input, sf) ==
    LET start_index == StartIndex(e.i)
        end_index   == EndIndex(input, e.i)
        slice       == Slice(input, start_index, end_index)
        window      == hanning(fft_size)
    IN  IF ~Broadcastable(len(slice), len(window))
        THEN Raise(e, BroadcastError)                              \* line 57
        ELSE LET frame == WindowMul(slice, window)
             IN  IF fft_size - len(frame) < 0
                 THEN Raise(e, PadError)                           \* line 60
                 ELSE LET padded_frame == pad(frame, fft_size - len(frame))
                          data    == fft(padded_frame)
                          idx     == NewIndices(len(data), sf)
                          shifted == ShiftedFft(data, idx)
                          f == [e EXCEPT !.fft_data = data,
                                         !.new_indices = idx,
                                         !.shifted_fft = shifted]
                      IN  Accumulate(f, Blend(e.output_blend, shifted), sf)

\* line 54 exhausted: the function returns None
ReturnNone(e) == [e EXCEPT !.pc = "returned"]

Set1(e) ==
    /\ pc' = e.pc
    /\ output' = e.output
    /\ status' = e.status
    /\ output_blend' = e.output_blend
    /\ num_chunks' = e.num_chunks
    /\ i' = e.i
    /\ fft_data' = e.fft_data
    /\ new_indices' = e.new_indices
    /\ shifted_fft' = e.shifted_fft
    /\ err' = e.err
    /\ printed' = e.printed
    /\ prior' = e.prior

Set2(e) ==
    /\ pc2' = e.pc
    /\ output2' = e.output
    /\ status2' = e.status
    /\ output_blend2' = e.output_blend
    /\ num_chunks2' = e.num_chunks
    /\ i2' = e.i
    /\ fft_data2' = e.fft_data
    /\ new_indices2' = e.new_indices
    /\ shifted_fft2' = e.shifted_fft
    /\ err2' = e.err
    /\ printed2' = e.printed
    /\ prior2' = e.prior

Finished(p) == p \in {"idle", "returned", "raised"}

\* the blocks the audio runtime can hand to the callback
\* (silence, and a unit impulse at each position)
Impulse(L, p) == [k \in 0 .. L - 1 |-> IF k = p THEN Unit ELSE 0]

Blocks ==
    UNION { {zeros(L)} \cup { Impulse(L, p) : p \in 0 .. L - 1 } : L \in 0 .. MaxLen }

\* a caller-owned output buffer as long as the input block, holding g
Buffer(input, g) == [k \in DOMAIN input |-> g * Unit]

\* the runtime's call: arguments bound, the locals of the finished call are
\* dead (output_blend is left visible until line 48 rebinds it)
Called(e, input, g, st) ==
    [e EXCEPT !.pc = "called", !.output = Buffer(input, g), !.status = st,
              !.prior = Buffer(input, g),
              !.err = "none", !.printed = <<>>, !.num_chunks = 0, !.i = 0,
              !.fft_data = zeros(0), !.new_indices = zeros(0),
              !.shifted_fft = zeros(0)]

Init ==
    /\ pc = "idle" /\ pc2 = "idle"
    /\ input_data = zeros(0)
    /\ shift_factor = [n |-> 1, d |-> 1]
    /\ output = zeros(0) /\ output2 = zeros(0)
    /\ status = 0 /\ status2 = 0
    /\ output_blend = zeros(fft_size) /\ output_blend2 = zeros(fft_size)
    /\ num_chunks = 0 /\ num_chunks2 = 0
    /\ i = 0 /\ i2 = 0
    /\ fft_data = zeros(0) /\ fft_data2 = zeros(0)
    /\ new_indices = zeros(0) /\ new_indices2 = zeros(0)
    /\ shifted_fft = zeros(0) /\ shifted_fft2 = zeros(0)
    /\ prior = zeros(0) /\ prior2 = zeros(0)
    /\ err = "none" /\ err2 = "none"
    /\ printed = <<>> /\ printed2 = <<>>

(* one engine *)

Invoke ==
    /\ Finished(pc)
    /\ \E input \in Blocks, g \in Garbage, st \in StatusFlags, sf \in ShiftFactors :
          /\ input_data' = input
          /\ shift_factor' = sf
          /\ Set1(Called(E1, input, g, st))
    /\ UNCHANGED vars2

Enter ==
    /\ pc = "called"
    /\ Set1(EnterCall(E1, input_data, shift_factor))
    /\ UNCHANGED <<input_data, shift_factor, vars2>>

Chunk ==
    /\ pc = "loop" /\ i < num_chunks
    /\ Set1(ChunkBody(E1, input_data, shift_factor))
    /\ UNCHANGED <<input_data, shift_factor, vars2>>

Return ==
    /\ pc = "loop" /\ i >= num_chunks
    /\ Set1(ReturnNone(E1))
    /\ UNCHANGED <<input_data, shift_factor, vars2>>

Next == Invoke \/ Enter \/ Chunk \/ Return

Spec == Init /\ [][Next]_vars

(* two engines, called with the same input blocks and shift factor; the    *)
(* first engine's status flags and output buffer contents are free, the    *)
(* second engine is always called with status 0 and a zeroed buffer        *)

Invoke2 ==
    /\ Finished(pc) /\ Finished(pc2)
    /\ \E input \in Blocks, sf \in ShiftFactors,
          g \in Garbage, st \in StatusFlags :
          /\ input_data' = input
          /\ shift_factor' = sf
          /\ Set1(Called(E1, input, g, st))
          /\ Set2(Called(E2, input, 0, 0))

Enter2 ==
    /\ pc = "called" /\ pc2 = "called"
    /\ Set1(EnterCall(E1, input_data, shift_factor))
    /\ Set2(EnterCall(E2, input_data, shift_factor))
    /\ UNCHANGED <<input_data, shift_factor>>

Chunk2 ==
    /\ pc = "loop" /\ i < num_chunks
    /\ pc2 = "loop" /\ i2 < num_chunks2
    /\ Set1(ChunkBody(E1, input_data, shift_factor))
    /\ Set2(ChunkBody(E2, input_data, shift_factor))
    /\ UNCHANGED <<input_data, shift_factor>>

Return2 ==
    /\ pc = "loop" /\ i >= num_chunks
    /\ pc2 = "loop" /\ i2 >= num_chunks2
    /\ Set1(ReturnNone(E1))
    /\ Set2(ReturnNone(E2))
    /\ UNCHANGED <<input_data, shift_factor>>

NextTwin == Invoke2 \/ Enter2 \/ Chunk2 \/ Return2

SpecTwin == Init /\ [][NextTwin]_vars

(* the bin remapping of lines 66-69 as a function of its inputs: any bin   *)
(* count up to MaxBins, any shift factor n/d with n <= MaxNum, d <= MaxDen, *)
(* applied to a spectrum whose bins are all different                      *)

MaxBins == 10
MaxNum == 7
MaxDen == 4

Tagged(N) == [k \in 0 .. N - 1 |-> <<k + 1, -k>>]

Remap ==
    /\ \E N \in 1 .. MaxBins, n \in 1 .. MaxNum, d \in 1 .. MaxDen :
          LET sf   == [n |-> n, d |-> d]
              data == Tagged(N)
              idx  == NewIndices(len(data), sf)
          IN  /\ shift_factor' = sf
              /\ fft_data' = data
              /\ new_indices' = idx
              /\ shifted_fft' = ShiftedFft(data, idx)
    /\ UNCHANGED <<input_data, pc, output, status, output_blend, num_chunks, i,
                   err, printed, prior, vars2>>

NextRemap == Remap

SpecRemap == Init /\ [][NextRemap]_vars

----------------------------------------------------------------------------
(* Properties *)

AllZero(a) == \A k \in DOMAIN a : a[k] = 0

\* the call got past line 45
Zeroed(p, e) == p \in {"loop", "returned"} \/ (p = "raised" /\ e # ShiftError)

\* C1: InvalidArgument is the only error process() can raise, and it is
\* raised only when shiftFactor <= 0 (every block length, every chunk).
C1_OnlyInvalidArgument ==
    pc = "raised" => (err = ShiftError /\ InvalidShift(shift_factor))

C3_InvalidShiftNoMutation ==
    [][(pc = "called" /\ InvalidShift(shift_factor))
          => /\ pc' = "raised" /\ err' = ShiftError
             /\ output' = output
             /\ output_blend' = output_blend]_vars

C3_Witness ==
    /\ pc = "raised" /\ err = ShiftError
    /\ status # 0
    /\ len(output) > 0 /\ ~AllZero(output) /\ output = prior
    /\ ~AllZero(output_blend)

\* C4: with an all-zero input block (and an all-zero SmoothingBuffer) and a
\* valid shiftFactor, for any block length, process() returns with the output
\* block and the SmoothingBuffer all zero.
C4_SilenceReturnsSilence ==
    (pc \in {"returned", "raised"} /\ ~InvalidShift(shift_factor) /\ AllZero(input_data))
        => (pc = "returned" /\ AllZero(output) /\ AllZero(output_blend))

\* C5: once the call has zero-initialised the output block, the block is as
\* long as the input block and holds what this call accumulated from zero:
\* the same as an engine called with a different output buffer holds.
C5_OutputProducedByCall ==
    /\ (pc = "loop" /\ i = 0) => AllZero(output)
    /\ Zeroed(pc, err) => /\ len(output) = len(input_data)
                          /\ output = output2

C5_Witness ==
    /\ pc = "returned"
    /\ prior # prior2
    /\ ~AllZero(output)

\* C6: a call with nonzero statusFlags prints a diagnostic and then does
\* exactly what the same call with statusFlags = 0 does: same control flow,
\* same error if any, same SmoothingBuffer, same output block.
C6_StatusNonFatal ==
    (status # 0 /\ status2 = 0 /\ pc \notin {"idle", "called"})
        => /\ printed = <<status>> /\ printed2 = <<>>
           /\ pc = pc2 /\ err = err2 /\ i = i2
           /\ output_blend = output_blend2
           /\ Zeroed(pc, err) => output = output2

C6_Witness ==
    /\ status # 0 /\ status2 = 0
    /\ pc = "returned" /\ pc2 = "returned"
    /\ printed = <<status>>
    /\ ~AllZero(output_blend)

\* C7: two engines given the same sequence of input blocks and the same
\* shiftFactor are in step at every point of every call and hold identical
\* spectra, SmoothingBuffers and (once written) output blocks.
C7_Deterministic ==
    /\ pc = pc2 /\ err = err2
    /\ i = i2 /\ num_chunks = num_chunks2
    /\ fft_data = fft_data2 /\ new_indices = new_indices2
    /\ shifted_fft = shifted_fft2
    /\ output_blend = output_blend2
    /\ len(output) = len(output2)
    /\ \A k \in DOMAIN output : (Zeroed(pc, err) \/ prior[k] = prior2[k]) => output[k] = output2[k]

\* a later chunk of a call made after an earlier call left its buffer behind
C7_Witness ==
    /\ pc = "loop" /\ i >= 2
    /\ prior # prior2 /\ status # status2
    /\ ~AllZero(output)

\* C8: a chunk that runs to its end adds the first
\* min(FFT_SIZE, len(output) - outStart) elements of the updated
\* SmoothingBuffer to output[outStart ..), outStart = floor(i*HOP/shiftFactor),
\* and writes nothing else; when outStart >= len(output) it leaves the output
\* block unchanged; the SmoothingBuffer is updated either way.
C8_OverlapAddClipped ==
    [][(pc = "loop" /\ i < num_chunks /\ pc' = "loop")
          => LET start    == i * (fft_size \div 4)
                 outStart == (start * shift_factor.d) \div shift_factor.n
                 L        == len(output)
                 count    == Min(fft_size, L - outStart)
             IN  /\ DOMAIN output' = DOMAIN output
                 /\ output_blend' = Blend(output_blend, shifted_fft')
                 /\ IF outStart < L
                    THEN \A k \in DOMAIN output :
                            output'[k] = IF outStart <= k /\ k < outStart + count
                                         THEN output[k] + output_blend'[k - outStart]
                                         ELSE output[k]
                    ELSE output' = output]_vars

\* a chunk whose outStart lies past the block has run
C8_Witness ==
    /\ pc = "loop" /\ i >= 1
    /\ ((i - 1) * (fft_size \div 4) * shift_factor.d) \div shift_factor.n >= len(output)
    /\ ~AllZero(output_blend) /\ ~AllZero(output)

\* m is p/q (q > 0) rounded to the nearest integer, ties to the even one
IsRounded(m, p, q) ==
    \/ (2 * m - 1) * q < 2 * p /\ 2 * p < (2 * m + 1) * q
    \/ (2 * p = (2 * m - 1) * q /\ m % 2 = 0)
    \/ (2 * p = (2 * m + 1) * q /\ m % 2 = 0)

\* round(k * shift_factor)
Target(k) ==
    CHOOSE m \in 0 .. k * shift_factor.n + 1 :
        IsRounded(m, k * shift_factor.n, shift_factor.d)

Remapped == len(shifted_fft) > 0

\* C9: the bins whose target round(k*s) is < FFT_SIZE are the bins
\* 0 .. validCount-1; the j-th retained index is round(j*s); shiftedSpectrum
\* at round(j*s) holds spectrum[j] as assigned in increasing j; every position
\* that is no retained bin's target is zero.
C9_RemapCopiesPrefix ==
    Remapped =>
        LET N  == len(fft_data)
            vc == len(new_indices)
        IN  /\ len(shifted_fft) = N
            /\ \A k \in 0 .. N - 1 : (Target(k) < N) <=> (k < vc)
            /\ \A j \in 0 .. vc - 1 : new_indices[j] = Target(j)
            /\ \A j \in 0 .. vc - 1 :
                  (\A h \in j + 1 .. vc - 1 : Target(h) # Target(j))
                      => shifted_fft[Target(j)] = fft_data[j]
            /\ \A t \in 0 .. N - 1 :
                  (\A j \in 0 .. vc - 1 : Target(j) # t) => shifted_fft[t] = <<0, 0>>

\* bins were discarded and a retained bin moved, carrying a nonzero value
C9_Witness ==
    /\ Remapped
    /\ pc = "loop"
    /\ len(new_indices) < len(fft_data)
    /\ \E j \in DOMAIN new_indices :
          new_indices[j] # j /\ shifted_fft[new_indices[j]] = fft_data[j]
                             /\ fft_data[j] # <<0, 0>>

\* C10: for s >= 1 the targets are strictly increasing, so exactly validCount
\* positions are written; for s < 1 no bin is discarded and a target shared
\* by several bins holds the value of the highest-indexed of them.
C10_CollisionsLastWins ==
    Remapped =>
        LET N  == len(fft_data)
            vc == len(new_indices)
            ge1 == shift_factor.n >= shift_factor.d
        IN  /\ ge1 => /\ \A j \in 0 .. N - 2 : Target(j) < Target(j + 1)
                      /\ Cardinality({new_indices[j] : j \in 0 .. vc - 1}) = vc
                      /\ \A j \in 0 .. vc - 1 : shifted_fft[new_indices[j]] = fft_data[j]
            /\ ~ge1 => /\ vc = N
                       /\ \A t \in 0 .. N - 1 :
                             LET hit == {j \in 0 .. N - 1 : new_indices[j] = t}
                             IN  hit # {} =>
                                   shifted_fft[t] =
                                     fft_data[CHOOSE j \in hit : \A h \in hit : h <= j]

\* two bins with different values share a target
C10_Witness ==
    /\ Remapped
    /\ shift_factor.n < shift_factor.d
    /\ \E j \in DOMAIN new_indices : \E h \in DOMAIN new_indices :
          /\ j < h /\ new_indices[j] = new_indices[h]
          /\ fft_data[j] # fft_data[h]
          /\ shifted_fft[new_indices[h]] = fft_data[h]

=============================================================================
